---- MODULE Spec2Model ----
(***************************************************************************)
(* Verification model of the Slide to Glory (Snakes & Ladders) multiplayer *)
(* core: the client turn machine of snake_ladder_core.py, two clients      *)
(* joined by the relay, and the session registry of websocket_server.py.   *)
(*                                                                         *)
(* Several specifications live in this module.  SpecGame runs the two      *)
(* clients of one Ready session (host = player 0, guest = player 1);       *)
(* SpecPeer runs one client against arbitrary peer actions; SpecMove runs  *)
(* one move from any rest square; SpecTurn runs the end of one turn with   *)
(* repeated token clicks; SpecBoard and SpecCode run the board             *)
(* configuration and the invite codes of utils.py; SpecServer runs the     *)
(* registry with its per-connection handler coroutines, and SpecPlaying    *)
(* runs it from a game whose host has dropped out.                         *)
(*                                                                         *)
(* Timers (tkinter after) are untimed: any pending callback of a client    *)
(* may fire next.  User clicks and network latency are arbitrary, so the   *)
(* relative order of a client's callbacks with respect to clicks, message  *)
(* arrival and the other client is not fixed by the code.                  *)
(***************************************************************************)
EXTENDS Integers, Sequences, FiniteSets, TLC

(***************************************************************************)
(* Board constants (snake_ladder_core.py:15-16)                            *)
(***************************************************************************)
SnakeHeads == {98, 95, 87, 62, 54, 16}
LadderBottoms == {1, 4, 9, 28, 36, 51, 71, 80}

SNAKES(p) ==
  CASE p = 98 -> 78 [] p = 95 -> 56 [] p = 87 -> 24
    [] p = 62 -> 18 [] p = 54 -> 34 [] p = 16 -> 6

LADDERS(p) ==
  CASE p = 1 -> 38 [] p = 4 -> 14 [] p = 9 -> 21 [] p = 28 -> 84
    [] p = 36 -> 44 [] p = 51 -> 67 [] p = 71 -> 91 [] p = 80 -> 100

\* the two dictionaries as sets of pairs
Snakes == {<<h, SNAKES(h)>> : h \in SnakeHeads}
Ladders == {<<b, LADDERS(b)>> : b \in LadderBottoms}

\* random.randint(1, 6)
DiceValues == 1..6

\* animate_dice_roll shows ten random faces before it settles
DiceFrames == 10

\* the winning square tested by complete_move
LastSquare == 100

(***************************************************************************)
(* Bounds of the game model                                                *)
(***************************************************************************)
\* accepted local rolls (both clients together) in one behaviour
MaxRolls == 1

\* next_turn callbacks a client may have pending at once (each click on the
\* token after an overshooting roll schedules one more)
MaxPendingTurns == 1

Players == 0..1

Other(p) == 1 - p

\* Starting points of a behaviour: the freshly constructed game, and three
\* late mid-game positions in which both clients are idle and agree.  Each
\* is reached from <<0, 0>> by snake-free rolls, host and guest alternating:
\*   <<77, 96>>, host to move:  1,1,1,1,6,6,6,6,5,4,5,5
\*   <<96, 92>>, host to move:  1,1,1,1,6,6,6,6,4,4,5,1
\*   <<92, 96>>, guest to move: 1,1,1,1,1,6,5,6,6,4,4,5,1
Start(p0, p1, m0, m1, cp) ==
  [pos |-> [i \in Players |-> IF i = 0 THEN p0 ELSE p1],
   mc |-> [i \in Players |-> IF i = 0 THEN m0 ELSE m1],
   cp |-> cp]

StartStates ==
  { Start(0, 0, 0, 0, 0), Start(77, 96, 6, 6, 0),
    Start(96, 92, 6, 6, 0), Start(92, 96, 7, 6, 1) }

VARIABLES
  cl,      \* cl[c]: the SnakeLadderGame object of client c
  chan,    \* chan[c]: game actions relayed towards client c, in order
  rolls,   \* accepted local rolls so far
  resets,  \* clicks on the Reset Game button so far
  peer,    \* messages received from an arbitrary peer so far
  boot,    \* the board configuration and what has been run on it
  inv,     \* utils.py: the last call of an invite-code function
  reg,     \* server: the GameServer object (sessions, clients)
  task,    \* server: per connection, the handle_client coroutine
  conn,    \* server: per connection, the socket state
  out,     \* server: per connection, the messages sent to it
  reqs     \* server: requests received so far

vars == <<cl, chan, rolls, resets, peer, boot, inv, reg, task, conn, out, reqs>>
gameVars == <<cl, chan, rolls, resets, peer, boot, inv>>
serverVars == <<reg, task, conn, out, reqs>>

(***************************************************************************)
(* Game action messages and pending callbacks                              *)
(***************************************************************************)
Msg(t, player, value, position, count) ==
  [type |-> t, player |-> player, value |-> value,
   position |-> position, move_count |-> count]

DiceRollMsg(player, value) == Msg("dice_roll", player, value, 0, 0)
MoveCompleteMsg(player, position, count) ==
  Msg("move_complete", player, 0, position, count)
TurnChangeMsg(current) == Msg("turn_change", current, 0, 0, 0)
GameEndMsg(winner) == Msg("game_end", winner, 0, 0, 0)
ResetMsg == Msg("reset", 0, 0, 0, 0)
NoMsg == Msg("none", 0, 0, 0, 0)

Timer(k, player, a, b, step, opp) ==
  [kind |-> k, player |-> player, start |-> a, end |-> b,
   step |-> step, opp |-> opp]

\* window.after(100, animate_dice_roll(frame, final_value)); final 0 = None
DiceTimer(frame, final) == Timer("dice", 0, 0, final, frame, FALSE)
\* window.after(150, animate_token_move(player, start, end, step, opp))
MoveTimer(player, a, b, step, opp) == Timer("move", player, a, b, step, opp)
\* window.after(500, handle_special_move(player, new_pos, opp))
SpecialTimer(player, newpos, opp) == Timer("special", player, 0, newpos, 0, opp)
\* window.after(1000, next_turn)
NextTurnTimer == Timer("next_turn", 0, 0, 0, 0, FALSE)
\* GameClient: root.after(0, messagebox.showinfo("Player Disconnected", ...))
NoticeTimer == Timer("notice", 0, 0, 0, 0, FALSE)

Schedule(g, t) == [g EXCEPT !.timers = Append(@, t)]
Send(g, m) == [g EXCEPT !.sent = Append(@, m)]

RemoveAt(s, i) == [j \in 1..(Len(s) - 1) |-> IF j < i THEN s[j] ELSE s[j + 1]]

(***************************************************************************)
(* SnakeLadderGame: one client.  The operators below take the object g and *)
(* return it as the method leaves it; g.sent collects the messages the     *)
(* method passed to send_network_message, in order.                        *)
(***************************************************************************)
\* no winner announced yet
NoWinner == {}

\* Some fields record history and are read by no method: dice_from tells
\* whether dice_value was last set by a local roll or by a relayed one,
\* applied is the last move_complete this client applied, last is the
\* last message _process_single_message was called with, disconnected
\* tells whether player_disconnected has been received, notices counts
\* the message boxes shown to the user about it, and move_from and
\* move_roll are the square and the dice value of the last local move
\* try_move_token started (move_roll 0: none yet), and turns_passed counts
\* the calls of next_turn since the last local roll was accepted; ended
\* counts the calls of handle_game_end since the game was last reset, and
\* again tells whether the game running now was started with Play Again.
\* dialogs is the number of game-over dialogs that are open, and grab
\* tells whether one of them holds the input grab (dialog.grab_set()), so
\* that clicks on the game window go nowhere.
\* SnakeLadderGame.__init__ in multiplayer mode, at a given starting point
NewGame(me, s) ==
  [me |-> me,
   positions |-> s.pos,
   dice_value |-> 0,
   current_player |-> s.cp,
   game_over |-> FALSE,
   my_turn |-> (s.cp = me),
   moving |-> FALSE,
   dice_rolling |-> FALSE,
   move_count |-> s.mc,
   roll_button |-> (s.cp = me),
   message_queue |-> <<>>,
   timers |-> <<>>,
   polling |-> TRUE,
   instance |-> TRUE,
   winner |-> NoWinner,
   dice_from |-> "none",
   applied |-> NoMsg,
   last |-> NoMsg, processed |-> <<>>,
   disconnected |-> FALSE,
   notices |-> 0,
   move_from |-> 0,
   move_roll |-> 0,
   turns_passed |-> 0,
   ended |-> 0,
   dialogs |-> 0,
   grab |-> FALSE,
   again |-> FALSE,
   sent |-> <<>>]

update_ui_state(g) ==
  IF g.game_over THEN g
  ELSE [g EXCEPT !.roll_button = g.my_turn]

next_turn(g) ==
  LET g1 == [g EXCEPT !.current_player = 1 - g.current_player,
                      !.dice_value = 0,
                      !.turns_passed = @ + 1]
      g2 == [g1 EXCEPT !.my_turn = (g1.current_player = g1.me)]
      g3 == update_ui_state(g2)
  IN Send(g3, TurnChangeMsg(g3.current_player))

\* a game end that also passes the turn
handle_game_end_passes_turn(g, winner_index) ==
  LET g1 == [g EXCEPT !.game_over = TRUE, !.roll_button = FALSE,
                      !.winner = {winner_index},
                      !.ended = @ + 1,
                      !.dialogs = @ + 1,
                      !.grab = TRUE,
                      !.again = FALSE,
                      !.current_player = 1 - @,
                      !.my_turn = ~@]
      g2 == Send(g1, GameEndMsg(winner_index))
  IN [g2 EXCEPT !.instance = FALSE]

\* winner is the player the status label and the game-over dialog announce;
\* show_game_over_dialog opens the dialog and gives it the input grab.
\* The on_game_end callback is GameClient.on_game_end, whose
\* cleanup_multiplayer drops the client's reference to the game.
handle_game_end(g, winner_index) ==
  LET g1 == [g EXCEPT !.game_over = TRUE, !.roll_button = FALSE,
                      !.winner = {winner_index},
                      !.ended = @ + 1,
                      !.dialogs = @ + 1,
                      !.grab = TRUE,
                      !.again = FALSE]
      g2 == Send(g1, GameEndMsg(winner_index))
  IN [g2 EXCEPT !.instance = FALSE]

\* complete_move with the win test written as "beyond the last square"
complete_move_past_last(g, player_index, final_pos, is_opponent_move) ==
  LET g1 == [g EXCEPT !.moving = FALSE, !.dice_value = 0]
      g2 == IF ~is_opponent_move
            THEN Send(g1, MoveCompleteMsg(player_index, final_pos,
                                          g1.move_count[player_index]))
            ELSE g1
  IN IF final_pos > LastSquare THEN handle_game_end(g2, player_index)
     ELSE IF ~is_opponent_move THEN next_turn(g2)
     ELSE update_ui_state(g2)

complete_move(g, player_index, final_pos, is_opponent_move) ==
  LET g1 == [g EXCEPT !.moving = FALSE, !.dice_value = 0]
      g2 == IF ~is_opponent_move
            THEN Send(g1, MoveCompleteMsg(player_index, final_pos,
                                          g1.move_count[player_index]))
            ELSE g1
  IN IF final_pos >= LastSquare THEN handle_game_end(g2, player_index)
     ELSE IF ~is_opponent_move THEN next_turn(g2)
     ELSE update_ui_state(g2)

handle_special_move(g, player_index, new_pos, is_opponent_move) ==
  complete_move([g EXCEPT !.positions[player_index] = new_pos],
                player_index, new_pos, is_opponent_move)

\* animate_token_move that looks for ladders only
animate_token_move_no_snakes(g, player_index, start_pos, end_pos, step, is_opponent_move) ==
  IF step < end_pos - start_pos
  THEN Schedule([g EXCEPT !.positions[player_index] = start_pos + step + 1],
                MoveTimer(player_index, start_pos, end_pos, step + 1,
                          is_opponent_move))
  ELSE IF end_pos \in LadderBottoms
       THEN Schedule(g, SpecialTimer(player_index, LADDERS(end_pos),
                                     is_opponent_move))
  ELSE complete_move(g, player_index, end_pos, is_opponent_move)

animate_token_move(g, player_index, start_pos, end_pos, step, is_opponent_move) ==
  IF step < end_pos - start_pos
  THEN Schedule([g EXCEPT !.positions[player_index] = start_pos + step + 1],
                MoveTimer(player_index, start_pos, end_pos, step + 1,
                          is_opponent_move))
  ELSE IF end_pos \in LadderBottoms
       THEN Schedule(g, SpecialTimer(player_index, LADDERS(end_pos),
                                     is_opponent_move))
  ELSE IF end_pos \in SnakeHeads
       THEN Schedule(g, SpecialTimer(player_index, SNAKES(end_pos),
                                     is_opponent_move))
  ELSE complete_move(g, player_index, end_pos, is_opponent_move)

\* final_value = 0 stands for None; rolled is the value random.randint
\* returns when the local roll settles
animate_dice_roll(g, frame, final_value, rolled) ==
  IF frame < DiceFrames
  THEN Schedule(g, DiceTimer(frame + 1, final_value))
  ELSE LET g1 == IF final_value = 0
                 THEN Send([g EXCEPT !.dice_value = rolled,
                                     !.dice_from = "local"],
                           DiceRollMsg(g.current_player, rolled))
                 ELSE [g EXCEPT !.dice_value = final_value,
                                !.dice_from = "remote"]
       IN [g1 EXCEPT !.dice_rolling = FALSE]

\* the early returns of roll_dice without the test of dice_rolling
RollRefused_while_rolling(g) == g.game_over \/ g.moving \/ ~g.my_turn

\* the early returns of roll_dice in multiplayer mode
RollRefused(g) == g.game_over \/ g.moving \/ g.dice_rolling \/ ~g.my_turn

roll_dice(g) ==
  IF RollRefused(g) THEN g
  ELSE animate_dice_roll([g EXCEPT !.dice_rolling = TRUE,
                                   !.roll_button = FALSE,
                                   !.turns_passed = 0], 0, 0, 0)

\* the early returns of try_move_token without the test of my_turn
MoveRefused_any_turn(g, player_index) ==
  \/ g.game_over \/ g.moving \/ g.dice_rolling \/ g.dice_value = 0
  \/ player_index # g.current_player

\* the early returns of try_move_token in multiplayer mode
MoveRefused(g, player_index) ==
  \/ g.game_over \/ g.moving \/ g.dice_rolling \/ g.dice_value = 0
  \/ player_index # g.current_player
  \/ ~g.my_turn

\* try_move_token that parks an overshooting token on the last square
try_move_token_clamped(g, player_index) ==
  IF MoveRefused(g, player_index) THEN g
  ELSE LET current_pos == g.positions[player_index]
           new_pos == current_pos + g.dice_value
       IN IF new_pos > LastSquare
          THEN Schedule([g EXCEPT !.positions[player_index] = LastSquare],
                        NextTurnTimer)
          ELSE animate_token_move(
                 [g EXCEPT !.moving = TRUE,
                           !.move_count[player_index] = @ + 1,
                           !.move_from = current_pos,
                           !.move_roll = g.dice_value],
                 player_index, current_pos, new_pos, 0, FALSE)

try_move_token(g, player_index) ==
  IF MoveRefused(g, player_index) THEN g
  ELSE LET current_pos == g.positions[player_index]
           new_pos == current_pos + g.dice_value
       IN IF new_pos > LastSquare
          THEN Schedule(g, NextTurnTimer)
          ELSE animate_token_move(
                 [g EXCEPT !.moving = TRUE,
                           !.move_count[player_index] = @ + 1,
                           !.move_from = current_pos,
                           !.move_roll = g.dice_value],
                 player_index, current_pos, new_pos, 0, FALSE)

reset_game(g) ==
  LET g1 == [g EXCEPT !.positions = [i \in Players |-> 0],
                      !.dice_value = 0,
                      !.current_player = 0,
                      !.game_over = FALSE,
                      !.moving = FALSE,
                      !.dice_rolling = FALSE,
                      !.move_count = [i \in Players |-> 0],
                      !.applied = NoMsg,
                      !.move_from = 0,
                      !.move_roll = 0,
                      !.turns_passed = 0,
                      !.ended = 0]
      g2 == [g1 EXCEPT !.my_turn = (g1.current_player = g1.me)]
  IN Send(update_ui_state(g2), ResetMsg)

\* the test on the player field left out: every action counts as the peer's
FromPeer_any(g, data) == TRUE

\* "if player != self.my_player_index"
FromPeer(g, data) == data.player # g.me

process_single_message(g0, data) ==
  LET g == [g0 EXCEPT !.last = data, !.processed = Append(@, data)] IN
  CASE data.type = "dice_roll" ->
         IF FromPeer(g, data)
         THEN animate_dice_roll([g EXCEPT !.dice_rolling = TRUE,
                                          !.roll_button = FALSE],
                                0, data.value, 0)
         ELSE g
    [] data.type = "move_complete" ->
         IF FromPeer(g, data)
         THEN LET old_pos == g.positions[data.player]
                  g1 == [g EXCEPT !.move_count[data.player] = data.move_count,
                                  !.applied = data]
              IN IF old_pos # data.position
                 THEN animate_token_move([g1 EXCEPT !.moving = TRUE],
                                         data.player, old_pos, data.position,
                                         0, TRUE)
                 ELSE [g1 EXCEPT !.positions[data.player] = data.position]
         ELSE g
    [] data.type = "turn_change" ->
         IF data.player # g.current_player
         THEN update_ui_state(
                [g EXCEPT !.current_player = data.player,
                          !.my_turn = (data.player = g.me),
                          !.dice_value = 0])
         ELSE g
    [] data.type = "reset" -> reset_game(g)
    [] data.type = "game_end" ->
         IF ~g.game_over THEN handle_game_end(g, data.player) ELSE g
    [] OTHER -> g

RECURSIVE ProcessAll(_, _)
ProcessAll(g, msgs) ==
  IF msgs = <<>> THEN g
  ELSE ProcessAll(process_single_message(g, Head(msgs)), Tail(msgs))

\* the tick without "self.message_queue.clear()"
process_network_messages_no_clear(g) ==
  LET g1 == ProcessAll(g, g.message_queue)
  IN [g1 EXCEPT !.polling = ~g1.game_over]

\* one tick of the 100 ms polling loop: drain the queue, then re-arm the
\* loop unless the game is over
process_network_messages(g) ==
  LET g1 == ProcessAll([g EXCEPT !.message_queue = <<>>], g.message_queue)
  IN [g1 EXCEPT !.polling = ~g1.game_over]

\* SnakeLadderGame.handle_network_message behind GameClient's
\* "if self.game_instance" test
\* a queue that takes the newest action first
handle_network_message_newest_first(g, data) ==
  IF g.instance THEN [g EXCEPT !.message_queue = <<data>> \o @] ELSE g

handle_network_message(g, data) ==
  IF g.instance THEN [g EXCEPT !.message_queue = Append(@, data)] ELSE g

\* handle_disconnect: the status label, the Roll Dice button, a message box
handle_disconnect(g) ==
  [g EXCEPT !.roll_button = FALSE, !.notices = @ + 1]

\* a pending callback runs
RunTimer(g, t, rolled) ==
  CASE t.kind = "dice" -> animate_dice_roll(g, t.step, t.end, rolled)
    [] t.kind = "move" ->
         animate_token_move(g, t.player, t.start, t.end, t.step, t.opp)
    [] t.kind = "special" -> handle_special_move(g, t.player, t.end, t.opp)
    [] t.kind = "next_turn" -> next_turn(g)
    [] t.kind = "notice" -> [g EXCEPT !.notices = @ + 1]

(***************************************************************************)
(* The two clients of one Ready session and the relay between them.        *)
(* WebSocketConnection.send_message joins its sender thread and the relay  *)
(* forwards each connection's messages in order, so chan is a FIFO.        *)
(***************************************************************************)
Clients == Players

PendingTurns(g) ==
  Cardinality({i \in 1..Len(g.timers) : g.timers[i].kind = "next_turn"})

\* a handler ran on client c and left it as g: its messages go on the wire.
\* A call that returned early changes nothing.  A handler may not push the
\* number of pending next_turn callbacks beyond the bound.
CommitWithin(c, g, bound) ==
  /\ LET pending == PendingTurns(cl[c])
     IN PendingTurns(g) <= IF pending > bound THEN pending ELSE bound
  /\ cl' = [cl EXCEPT ![c] = [g EXCEPT !.sent = <<>>]]
  /\ chan' = [chan EXCEPT ![Other(c)] = @ \o g.sent]

Commit(c, g) == CommitWithin(c, g, MaxPendingTurns)

\* the user clicks the Roll Dice button (tkinter runs the command of an
\* enabled button only)
RollDice(c) ==
  /\ cl[c].roll_button
  /\ ~cl[c].grab
  /\ LET g == roll_dice(cl[c])
     IN /\ g # cl[c] => rolls < MaxRolls
        /\ rolls' = IF g # cl[c] THEN rolls + 1 ELSE rolls
        /\ Commit(c, g)
  /\ UNCHANGED <<resets, peer, serverVars, boot, inv>>

\* the user clicks the own token (only the own token is bound)
ClickToken(c) ==
  /\ ~cl[c].grab
  /\ Commit(c, try_move_token(cl[c], cl[c].me))
  /\ UNCHANGED <<rolls, resets, peer, serverVars, boot, inv>>

\* a pending window.after callback of client c runs
FireTimer(c) ==
  \E i \in 1..Len(cl[c].timers) :
    LET t == cl[c].timers[i]
        g == [cl[c] EXCEPT !.timers = RemoveAt(@, i)]
        settles == t.kind = "dice" /\ t.step >= DiceFrames /\ t.end = 0
    IN \E rolled \in (IF settles THEN DiceValues ELSE {0}) :
         /\ Commit(c, RunTimer(g, t, rolled))
         /\ UNCHANGED <<rolls, resets, peer, serverVars, boot, inv>>

\* the network thread hands the next relayed action to the game
Deliver(c) ==
  /\ chan[c] # <<>>
  /\ cl' = [cl EXCEPT ![c] = handle_network_message(@, Head(chan[c]))]
  /\ chan' = [chan EXCEPT ![c] = Tail(@)]
  /\ UNCHANGED <<rolls, resets, peer, serverVars, boot, inv>>

\* a polling tick that has something to do: messages to drain, or the loop
\* to stop because the game is over
Tick(c) ==
  /\ cl[c].polling
  /\ cl[c].message_queue # <<>> \/ cl[c].game_over
  /\ Commit(c, process_network_messages(cl[c]))
  /\ UNCHANGED <<rolls, resets, peer, serverVars, boot, inv>>

\* snake_ladder_core.py as shipped, imported by a running game
Shipped ==
  [snakes |-> Snakes, ladders |-> Ladders, verdict |-> "none",
   started |-> TRUE]

\* no invite-code function has been called
NoCall == [call |-> "none", arg |-> <<>>, exc |-> "none", val |-> <<>>]

ServerIdle ==
  /\ reg = [sessions |-> <<>>, clients |-> {}]
  /\ task = <<>>
  /\ conn = <<>>
  /\ out = <<>>
  /\ reqs = 0

InitGame ==
  /\ \E s \in StartStates : cl = [c \in Clients |-> NewGame(c, s)]
  /\ chan = [c \in Clients |-> <<>>]
  /\ rolls = 0
  /\ resets = 0
  /\ peer = 0
  /\ ServerIdle
  /\ boot = Shipped
  /\ inv = NoCall

NextGame ==
  \E c \in Clients :
    \/ RollDice(c)
    \/ ClickToken(c)
    \/ FireTimer(c)
    \/ Deliver(c)
    \/ Tick(c)

SpecGame == InitGame /\ [][NextGame]_vars

(***************************************************************************)
(* One client against an arbitrary peer.  The network thread hands the     *)
(* client any game action at any time, whether or not a peer that follows  *)
(* the rules would send it.  Only the client runs: the slot of the other   *)
(* player holds no running game (Local is false there), and what the       *)
(* client sends stays on the wire.                                         *)
(***************************************************************************)
\* rolls, resets and received messages in one behaviour, taken together
MaxInputs == 2

\* clicks on the Reset Game button in one behaviour
MaxResets == 1

\* the game actions _process_single_message tells apart, by their type and
\* by their player field, for either player
PeerMsgs ==
  {DiceRollMsg(p, 3) : p \in Players}
    \cup {MoveCompleteMsg(p, 3, 1) : p \in Players}
    \cup {TurnChangeMsg(p) : p \in Players}
    \cup {GameEndMsg(p) : p \in Players}
    \cup {ResetMsg}

Local(c) == cl[c].me = c

Inputs == rolls + resets + peer

\* the user clicks the Reset Game button of the game window
ResetGame(c) ==
  /\ ~cl[c].grab
  /\ resets < MaxResets
  /\ resets' = resets + 1
  /\ Commit(c, reset_game(cl[c]))
  /\ UNCHANGED <<rolls, peer, serverVars, boot, inv>>

\* the user clicks Play Again in a game-over dialog: the dialog is
\* destroyed, which releases the grab, and reset_game runs
PlayAgain(c) ==
  /\ cl[c].dialogs > 0
  /\ resets < MaxResets
  /\ resets' = resets + 1
  /\ Commit(c, reset_game([cl[c] EXCEPT !.dialogs = @ - 1,
                                       !.grab = FALSE,
                                       !.again = TRUE]))
  /\ UNCHANGED <<rolls, peer, serverVars, boot, inv>>

\* the network thread hands a game action to the game (the server relays
\* none after it has told the client that the peer is gone)
PeerAction(c) ==
  \E data \in PeerMsgs :
    /\ ~cl[c].disconnected
    /\ cl' = [cl EXCEPT ![c] = handle_network_message(@, data)]
    /\ peer' = peer + 1
    /\ UNCHANGED <<chan, rolls, resets, serverVars, boot, inv>>

\* the network thread receives player_disconnected during a game:
\* GameClient schedules its message box and calls handle_disconnect
PlayerDisconnected(c) ==
  /\ cl[c].instance
  /\ ~cl[c].disconnected
  /\ cl' = [cl EXCEPT ![c] =
              Schedule(handle_disconnect([@ EXCEPT !.disconnected = TRUE]),
                       NoticeTimer)]
  /\ peer' = peer + 1
  /\ UNCHANGED <<chan, rolls, resets, serverVars, boot, inv>>

InitPeer ==
  /\ \E me \in Players, s \in StartStates :
       cl = [c \in Clients |-> NewGame(me, s)]
  /\ chan = [c \in Clients |-> <<>>]
  /\ rolls = 0
  /\ resets = 0
  /\ peer = 0
  /\ ServerIdle
  /\ boot = Shipped
  /\ inv = NoCall

NextPeer ==
  \E c \in Clients :
    /\ Local(c)
    /\ \/ Inputs < MaxInputs /\ RollDice(c)
       \/ Inputs < MaxInputs /\ ResetGame(c)
       \/ Inputs < MaxInputs /\ PlayAgain(c)
       \/ Inputs < MaxInputs /\ PeerAction(c)
       \/ Inputs < MaxInputs /\ PlayerDisconnected(c)
       \/ ClickToken(c)
       \/ FireTimer(c)
       \/ Tick(c)

SpecPeer == InitPeer /\ [][NextPeer]_vars

(***************************************************************************)
(* One local move, from any square a token can rest on.  A behaviour       *)
(* starts when the mover's roll has settled, in a game in which both       *)
(* players have made k moves each (k + 1 for the host when the guest is    *)
(* to move): the mover stands on any square k moves can lead to, the other *)
(* player on the lowest such square.  Only the mover's client runs.        *)
(***************************************************************************)
\* moves each player has made before the behaviour starts
MaxMoves == 7

\* where a token that lands on q comes to rest (SNAKES and LADDERS)
Land(q) ==
  IF q \in LadderBottoms THEN LADDERS(q)
  ELSE IF q \in SnakeHeads THEN SNAKES(q)
  ELSE q

\* the squares a token can rest on after k moves of a game still running
RECURSIVE Reach(_)
Reach(k) ==
  IF k = 0 THEN {0}
  ELSE {Land(pd[1] + pd[2]) :
          pd \in {x \in Reach(k - 1) \X DiceValues : x[1] + x[2] <= LastSquare}}
       \ {LastSquare}

Low(k) == CHOOSE p \in Reach(k) : \A q \in Reach(k) : p <= q

\* the game after the local roll has settled on d
Rolled(g, d) ==
  [g EXCEPT !.dice_value = d, !.dice_from = "local", !.roll_button = FALSE]

InitMove ==
  /\ \E k \in 0..MaxMoves, me \in Players, d \in DiceValues :
       \E p \in Reach(k) :
         LET s == IF me = 0 THEN Start(p, Low(k), k, k, 0)
                  ELSE Start(Low(k + 1), p, k + 1, k, 1)
         IN cl = [c \in Clients |-> Rolled(NewGame(me, s), d)]
  /\ chan = [c \in Clients |-> <<>>]
  /\ rolls = 0
  /\ resets = 0
  /\ peer = 0
  /\ ServerIdle
  /\ boot = Shipped
  /\ inv = NoCall

NextMove ==
  \E c \in Clients :
    /\ Local(c)
    /\ \/ ClickToken(c)
       \/ FireTimer(c)

SpecMove == InitMove /\ [][NextMove]_vars

(***************************************************************************)
(* The end of a turn.  A behaviour starts when the roll of the player to   *)
(* move has settled and its dice_roll is on the way to the peer; both      *)
(* clients run, nobody rolls again, and the mover may click the token more *)
(* than once.                                                              *)
(***************************************************************************)
\* next_turn callbacks the clicks of one client may leave pending at once
MaxClicks == 2

\* the user clicks the own token, once more if it comes to that
ClickTokenAgain(c) ==
  /\ ~cl[c].grab
  /\ CommitWithin(c, try_move_token(cl[c], cl[c].me), MaxClicks)
  /\ UNCHANGED <<rolls, resets, peer, serverVars, boot, inv>>

InitTurn ==
  /\ \E s \in StartStates, d \in DiceValues :
       /\ cl = [c \in Clients |->
                  IF c = s.cp THEN Rolled(NewGame(c, s), d)
                  ELSE NewGame(c, s)]
       /\ chan = [c \in Clients |->
                    IF c = s.cp THEN <<>> ELSE <<DiceRollMsg(s.cp, d)>>]
  /\ rolls = 0
  /\ resets = 0
  /\ peer = 0
  /\ ServerIdle
  /\ boot = Shipped
  /\ inv = NoCall

NextOfTurn ==
  \E c \in Clients :
    \/ ClickTokenAgain(c)
    \/ FireTimer(c)
    \/ Deliver(c)
    \/ Tick(c)

SpecTurn == InitTurn /\ [][NextOfTurn]_vars

(***************************************************************************)
(* The board configuration.  SNAKES and LADDERS are module-level           *)
(* dictionaries of snake_ladder_core.py; a behaviour starts with the       *)
(* dictionaries as shipped or with a few entries added to them, runs the   *)
(* test script on them or not, and starts a game.                          *)
(***************************************************************************)
\* entries a maintainer may add: a head on a ladder bottom, a head below
\* its tail, a head off the board, and a sound one
ExtraSnakes == {<<4, 2>>, <<50, 60>>, <<101, 3>>, <<30, 10>>}

\* a bottom on a snake tail, a bottom above its top, and a sound one
ExtraLadders == {<<6, 40>>, <<60, 50>>, <<10, 20>>}

Endpoints(pairs) == {e[1] : e \in pairs} \cup {e[2] : e \in pairs}

\* test_game.py: the value test_game_constants returns.  A square shared
\* by a snake and a ladder prints a warning and does not change the result.
test_game_constants(snakes, ladders) ==
  /\ snakes # {} /\ \A e \in snakes : e[1] > e[2]
  /\ ladders # {} /\ \A e \in ladders : e[1] < e[2]
  /\ \A pos \in Endpoints(snakes) \cup Endpoints(ladders) :
       1 <= pos /\ pos <= 100

\* python test_game.py
RunTests ==
  /\ boot.verdict = "none"
  /\ boot' = [boot EXCEPT !.verdict =
                IF test_game_constants(boot.snakes, boot.ladders)
                THEN "pass" ELSE "fail"]
  /\ UNCHANGED <<cl, chan, rolls, resets, peer, serverVars, inv>>

\* SnakeLadderGame.__init__ (and main.py before it) read the dictionaries
\* as they are
StartGame ==
  /\ ~boot.started
  /\ boot' = [boot EXCEPT !.started = TRUE]
  /\ UNCHANGED <<cl, chan, rolls, resets, peer, serverVars, inv>>

InitBoard ==
  /\ \E xs \in SUBSET ExtraSnakes, xl \in SUBSET ExtraLadders :
       boot = [snakes |-> Snakes \cup xs, ladders |-> Ladders \cup xl,
               verdict |-> "none", started |-> FALSE]
  /\ cl = <<>>
  /\ chan = <<>>
  /\ rolls = 0
  /\ resets = 0
  /\ peer = 0
  /\ inv = NoCall
  /\ ServerIdle

NextBoard == RunTests \/ StartGame

SpecBoard == InitBoard /\ [][NextBoard]_vars

(***************************************************************************)
(* Invite codes of utils.py.  A string is a sequence of one-character      *)
(* strings.  A call returns a record: exc is the exception it raised       *)
(* ("none" when it returned), val the value it returned.                   *)
(***************************************************************************)
\* generate_invite_code(length=8)
CodeLength == 8

\* string.ascii_uppercase + string.digits
Characters ==
  <<"A", "B", "C", "D", "E", "F", "G", "H", "I", "J", "K", "L", "M",
    "N", "O", "P", "Q", "R", "S", "T", "U", "V", "W", "X", "Y", "Z",
    "0", "1", "2", "3", "4", "5", "6", "7", "8", "9">>

\* set('ABCDEFGHJKLMNPQRSTUVWXYZ23456789')
Allowed ==
  {"A", "B", "C", "D", "E", "F", "G", "H", "J", "K", "L", "M", "N", "P",
   "Q", "R", "S", "T", "U", "V", "W", "X", "Y", "Z",
   "2", "3", "4", "5", "6", "7", "8", "9"}

Returned(v) == [exc |-> "none", val |-> v]
Raised(e) == [exc |-> e, val |-> <<>>]

\* str.replace(*args) for one-character old and new strings: fewer than
\* two arguments raise TypeError
str_replace(str, args) ==
  IF Len(args) < 2 THEN Raised("TypeError")
  ELSE IF args[2] = "" THEN Returned(SelectSeq(str, LAMBDA ch : ch # args[1]))
  ELSE Returned([i \in DOMAIN str |-> IF str[i] = args[1] THEN args[2] ELSE str[i]])

\* a chain str.replace(...).replace(...): the first exception ends it
RECURSIVE replace_chain(_, _)
replace_chain(str, calls) ==
  IF calls = <<>> THEN Returned(str)
  ELSE LET r == str_replace(str, Head(calls))
       IN IF r.exc # "none" THEN r ELSE replace_chain(r.val, Tail(calls))

\* picks[i] is the index random.choice draws for the i-th character
generate_invite_code(length, picks) ==
  LET characters ==
        replace_chain(Characters,
                      << <<"0", "">>, <<"O", "">>, <<"I", "">>, <<"1">> >>)
  IN IF characters.exc # "none" THEN characters
     ELSE Returned([i \in 1..length |-> characters.val[picks[i]]])

\* str.upper() on one character of the model's alphabet
upper(ch) == IF ch = "a" THEN "A" ELSE ch

\* code = <<>> stands for an empty string or None
validate_invite_code(code) ==
  IF code = <<>> \/ Len(code) # 8 THEN FALSE
  ELSE \A i \in DOMAIN code : upper(code[i]) \in Allowed

\* the indices random.choice may draw in a behaviour
Picks == {1, 2}

\* the codes validate_invite_code is called with
TypedCodes ==
  {<<>>} \cup [1..(CodeLength - 1) -> {"A", "a", "0"}]
         \cup [1..CodeLength -> {"A", "a", "0"}]

\* test_utils: code = generate_invite_code()
Generate ==
  /\ inv.call = "none"
  /\ inv' = [call |-> "generate", arg |-> inv.arg] @@
            generate_invite_code(CodeLength, inv.arg)
  /\ UNCHANGED <<cl, chan, rolls, resets, peer, boot, serverVars>>

\* validate_invite_code(code) on a code some caller holds
Validate ==
  /\ inv.call = "none"
  /\ \E code \in TypedCodes :
       inv' = [call |-> "validate", arg |-> code] @@
              Returned(validate_invite_code(code))
  /\ UNCHANGED <<cl, chan, rolls, resets, peer, boot, serverVars>>

InitCode ==
  /\ \E picks \in [1..CodeLength -> Picks] : inv = [NoCall EXCEPT !.arg = picks]
  /\ cl = <<>>
  /\ chan = <<>>
  /\ rolls = 0
  /\ resets = 0
  /\ peer = 0
  /\ boot = Shipped
  /\ ServerIdle

NextCode == Generate \/ Validate

SpecCode == InitCode /\ [][NextCode]_vars

(***************************************************************************)
(* GameServer (websocket_server.py).  One coroutine per connection runs    *)
(* handle_client; the coroutines share the registry and interleave at      *)
(* their awaits.  A step of a coroutine runs from one await to the next:   *)
(* "await x.send(m)" writes m to x (or raises ConnectionClosed when x is   *)
(* closed) and then yields.                                                *)
(***************************************************************************)
\* the connections, numbered in the order in which they connect
Conns == 1..3

\* Python's None for a connection or an info record
None == 0

\* requests the server handles in one behaviour
MaxRequests == 2

RECURSIVE Sum(_, _)
Sum(f, S) ==
  IF S = {} THEN 0
  ELSE LET x == CHOOSE y \in S : TRUE IN f[x] + Sum(f, S \ {x})

\* reqs[c] counts the requests of connection c handled so far
Handled == Sum(reqs, Conns)

\* str(uuid.uuid4()): the model gives session n the id n (ids are never
\* reused) and lets its first 8 characters be any of these prefixes, since
\* nothing in create_session keeps two sessions from sharing them
SidPrefixes == {"ab", "cd"}

\* invite codes a client may type
JoinCodes == {"ab", "CD"}

\* data.get("invite_code", "") of a join_session without invite_code
NoCode == ""

\* str.upper() on the strings of the model
Upper(str) ==
  CASE str = "ab" -> "AB"
    [] str = "cd" -> "CD"
    [] OTHER -> str

\* session_id[:8].upper()
InviteCode(session) == Upper(session.prefix)

(***************************************************************************)
(* self.sessions is a dict: reg.sessions lists its entries in insertion    *)
(* order, and a deleted key leaves a dead entry behind, as in CPython.     *)
(* The session_id of an entry is its index.                                *)
(***************************************************************************)
Live(ss) == {i \in 1..Len(ss) : ss[i].live}

ServerMsg(t, sid, text, info) ==
  [type |-> t, session_id |-> sid, text |-> text, info |-> info]

ErrorMsg(text) == ServerMsg("error", 0, text, None)
SessionCreatedMsg(sid, code) == ServerMsg("session_created", sid, code, None)
PlayerJoinedMsg(info) == ServerMsg("player_joined", 0, "", info)
SessionJoinedMsg(sid, info) == ServerMsg("session_joined", sid, "", info)
GameReadyMsg(sid) == ServerMsg("game_ready", sid, "", None)
\* the envelope of relay_game_message: "type" and "data", nothing else
GameMessageMsg(game_data) == ServerMsg("game_message", 0, game_data, None)
PlayerDisconnectedMsg(sid) == ServerMsg("player_disconnected", sid, "", None)

\* the "data" of a game_message, opaque to the server
Payloads == {"roll", "move"}

\* a request as handle_message decodes it; session_id 0 is a session_id
\* that is missing or names no session
GameRequest(t, code, session_id, game_data) ==
  [type |-> t, invite_code |-> code, session_id |-> session_id,
   data |-> game_data]

Request(t, code) == GameRequest(t, code, 0, "")
NoRequest == Request("none", "")

NoIter == [pos |-> 0, used |-> 0, len |-> 0]

\* the coroutine of a connection: where it stands, the request it handles
\* (data), the session_id of join_session, and the locals of
\* unregister_client (its argument, the dict iterator and
\* sessions_to_remove)
NewTask ==
  [pc |-> "new", data |-> NoRequest, sid |-> 0,
   ws |-> None, it |-> NoIter, rm |-> <<>>]

\* the session create_session stores
NewSession(prefix, websocket) ==
  [prefix |-> prefix,
   host |-> websocket,
   guest |-> None,
   host_info |-> websocket,
   guest_info |-> None,
   game_state |-> "waiting",
   live |-> TRUE]

\* a lookup that takes the first live session whatever its code
FindSession_first(ss, invite_code) ==
  IF Live(ss) = {} THEN 0
  ELSE CHOOSE i \in Live(ss) : \A j \in Live(ss) : i <= j

\* "for sid in self.sessions: if sid[:8].upper() == invite_code: break";
\* 0 when the loop finds nothing
FindSession(ss, invite_code) ==
  LET hits == {i \in Live(ss) : InviteCode(ss[i]) = invite_code}
  IN IF hits = {} THEN 0
     ELSE CHOOSE i \in hits : \A j \in hits : i <= j

\* a test that only refuses the host's own join
SessionFull_host(session) == session.guest = session.host

\* the "session is full" test of join_session
SessionFull(session) == session.guest # None

\* an attach that leaves game_state alone
Attach_waiting(session, websocket) ==
  [session EXCEPT !.guest = websocket,
                  !.guest_info = websocket]

\* join_session adds the guest
Attach(session, websocket) ==
  [session EXCEPT !.guest = websocket,
                  !.guest_info = websocket,
                  !.game_state = "ready"]

\* websocket.send: the message is written when the socket is open
Write(o, cn, to, m) ==
  IF cn[to] = "open" THEN [o EXCEPT ![to] = Append(@, m)] ELSE o

\* the dict iterator of unregister_client's loop, as CPython advances it:
\* a changed size raises RuntimeError, as does an entry beyond the count
\* the iterator started with
RECURSIVE UnregScan(_, _, _, _, _)
UnregScan(ss, clients, websocket, it, rm) ==
  IF Cardinality(Live(ss)) # it.used
  THEN [kind |-> "error", it |-> it, rm |-> rm, to |-> None, sid |-> 0]
  ELSE LET rest == {i \in Live(ss) : i >= it.pos}
       IN IF rest = {}
          THEN [kind |-> "stop", it |-> it, rm |-> rm, to |-> None, sid |-> 0]
          ELSE IF it.len = 0
          THEN [kind |-> "error", it |-> it, rm |-> rm, to |-> None, sid |-> 0]
          ELSE LET n == CHOOSE i \in rest : \A j \in rest : i <= j
                   session == ss[n]
                   it2 == [it EXCEPT !.pos = n + 1, !.len = @ - 1]
               IN IF websocket \in {session.host, session.guest}
                  THEN LET other_player ==
                             IF session.host = websocket THEN session.guest
                             ELSE session.host
                           rm2 == Append(rm, n)
                       IN IF other_player # None /\ other_player \in clients
                          THEN [kind |-> "yield", it |-> it2, rm |-> rm2,
                                to |-> other_player, sid |-> n]
                          ELSE UnregScan(ss, clients, websocket, it2, rm2)
                  ELSE UnregScan(ss, clients, websocket, it2, rm)

\* "for session_id in sessions_to_remove: del self.sessions[session_id]";
\* del raises KeyError on a key that is gone
RECURSIVE DeleteAll(_, _)
\* a teardown that empties the registry
DeleteAll_every_session(ss, rm) ==
  [sessions |-> [i \in DOMAIN ss |-> [ss[i] EXCEPT !.live = FALSE]],
   ok |-> TRUE]

DeleteAll(ss, rm) ==
  IF rm = <<>> THEN [sessions |-> ss, ok |-> TRUE]
  ELSE IF ~ss[Head(rm)].live THEN [sessions |-> ss, ok |-> FALSE]
  ELSE DeleteAll([ss EXCEPT ![Head(rm)].live = FALSE], Tail(rm))

\* a relay without the outer "except Exception"
AfterUnregister_escapes(nested, how) ==
  CASE how = "await" -> IF nested THEN "relay_unreg_await" ELSE "unreg_await"
    [] how = "return" -> IF nested THEN "recv" ELSE "done"
    [] how = "RuntimeError" -> "crashed"
    [] how = "KeyError" -> "keyerror"

\* where the coroutine goes when unregister_client awaits, returns or
\* raises: handle_client's "finally" ends the coroutine; inside
\* relay_game_message the outer "except Exception" swallows the exception
\* and the receive loop goes on
AfterUnregister(nested, how) ==
  CASE how = "await" -> IF nested THEN "relay_unreg_await" ELSE "unreg_await"
    [] how = "return" -> IF nested THEN "recv" ELSE "done"
    [] how = "RuntimeError" -> IF nested THEN "recv" ELSE "crashed"
    [] how = "KeyError" -> IF nested THEN "recv" ELSE "keyerror"

\* unregister_client(websocket), called in the coroutine of connection c
\* (tk holds the coroutines as the caller leaves them), runs on from the
\* iterator state it until it awaits a send, returns or raises
UnregisterRun(tk, c, websocket, nested, clients, it, rm) ==
  LET r == UnregScan(reg.sessions, clients, websocket, it, rm)
      leave(how) == [tk EXCEPT ![c].pc = AfterUnregister(nested, how),
                                 ![c].ws = None,
                                 ![c].it = NoIter, ![c].rm = <<>>]
  IN CASE r.kind = "yield" ->
            /\ reg' = [reg EXCEPT !.clients = clients]
            /\ out' = Write(out, conn, r.to, PlayerDisconnectedMsg(r.sid))
            /\ task' = [tk EXCEPT
                          ![c].pc = AfterUnregister(nested, "await"),
                          ![c].ws = websocket,
                          ![c].it = r.it, ![c].rm = r.rm]
       [] r.kind = "stop" ->
            LET d == DeleteAll(reg.sessions, r.rm)
            IN /\ reg' = [sessions |-> d.sessions, clients |-> clients]
               /\ out' = out
               /\ task' = leave(IF d.ok THEN "return" ELSE "KeyError")
       [] r.kind = "error" ->
            /\ reg' = [reg EXCEPT !.clients = clients]
            /\ out' = out
            /\ task' = leave("RuntimeError")

\* a client connects: handle_client starts and register_client adds it
Connect(c) ==
  /\ conn[c] = "new"
  /\ \A d \in Conns : d < c => conn[d] # "new"
  /\ conn' = [conn EXCEPT ![c] = "open"]
  /\ reg' = [reg EXCEPT !.clients = @ \cup {c}]
  /\ task' = [task EXCEPT ![c].pc = "recv"]
  /\ UNCHANGED <<out, reqs, gameVars>>

\* the connection of c closes (the client quits or the network drops it)
Close(c) ==
  /\ conn[c] = "open"
  /\ conn' = [conn EXCEPT ![c] = "closed"]
  /\ UNCHANGED <<reg, task, out, reqs, gameVars>>

\* handle_message dispatches a create_session request of c
CreateSession(c) ==
  /\ task[c].pc = "recv" /\ conn[c] = "open" /\ Handled < MaxRequests
  /\ \E prefix \in SidPrefixes :
       LET sid == Len(reg.sessions) + 1
           session == NewSession(prefix, c)
       IN /\ reg' = [reg EXCEPT !.sessions = Append(@, session)]
          /\ out' = Write(out, conn, c,
                          SessionCreatedMsg(sid, InviteCode(session)))
  /\ task' = [task EXCEPT ![c].data = Request("create_session", "")]
  /\ reqs' = [reqs EXCEPT ![c] = @ + 1]
  /\ UNCHANGED <<conn, gameVars>>

\* join_session from its start to its first await
JoinSession(c) ==
  /\ task[c].pc = "recv" /\ conn[c] = "open" /\ Handled < MaxRequests
  /\ reqs' = [reqs EXCEPT ![c] = @ + 1]
  /\ \E code \in JoinCodes \cup {NoCode} :
       LET data == Request("join_session", code)
           invite_code == Upper(data.invite_code)
           session_id == FindSession(reg.sessions, invite_code)
           t == [task[c] EXCEPT !.data = data]
       IN IF session_id = 0
          THEN /\ out' = Write(out, conn, c, ErrorMsg("Session not found"))
               /\ task' = [task EXCEPT ![c] = t]
               /\ reg' = reg
          ELSE IF SessionFull(reg.sessions[session_id])
          THEN /\ out' = Write(out, conn, c, ErrorMsg("Session is full"))
               /\ task' = [task EXCEPT ![c] = t]
               /\ reg' = reg
          ELSE LET session == Attach(reg.sessions[session_id], c)
               IN /\ reg' = [reg EXCEPT !.sessions[session_id] = session]
                  /\ IF session.host \in reg.clients
                     THEN IF conn[session.host] = "open"
                          THEN /\ out' = Write(out, conn, session.host,
                                           PlayerJoinedMsg(session.guest_info))
                               /\ task' = [task EXCEPT ![c] =
                                    [t EXCEPT !.pc = "join_confirm",
                                              !.sid = session_id]]
                          ELSE \* send raised: "Failed to join session"
                               /\ out' = Write(out, conn, c,
                                           ErrorMsg("Failed to join session"))
                               /\ task' = [task EXCEPT ![c] = t]
                     ELSE /\ out' = Write(out, conn, c,
                                      SessionJoinedMsg(session_id,
                                                       session.host_info))
                          /\ task' = [task EXCEPT ![c] =
                               [t EXCEPT !.pc = "join_sleep",
                                         !.sid = session_id]]
  /\ UNCHANGED <<conn, gameVars>>

\* join_session: "Confirm join to guest", then asyncio.sleep(0.5)
JoinConfirm(c) ==
  /\ task[c].pc = "join_confirm"
  /\ LET session == reg.sessions[task[c].sid]
     IN IF conn[c] = "open"
        THEN /\ out' = Write(out, conn, c,
                         SessionJoinedMsg(task[c].sid, session.host_info))
             /\ task' = [task EXCEPT ![c].pc = "join_sleep"]
        ELSE \* send raised; so does the error reply
             /\ out' = out
             /\ task' = [task EXCEPT ![c].pc = "recv", ![c].sid = 0]
  /\ UNCHANGED <<reg, conn, reqs, gameVars>>

\* join_session after the sleep: game_ready to the host
JoinReadyHost(c) ==
  /\ task[c].pc = "join_sleep"
  /\ LET session == reg.sessions[task[c].sid]
         start_message == GameReadyMsg(task[c].sid)
     IN IF session.host \in reg.clients
        THEN IF conn[session.host] = "open"
             THEN /\ out' = Write(out, conn, session.host, start_message)
                  /\ task' = [task EXCEPT ![c].pc = "join_ready_guest"]
             ELSE /\ out' = Write(out, conn, c,
                              ErrorMsg("Failed to join session"))
                  /\ task' = [task EXCEPT ![c].pc = "recv", ![c].sid = 0]
        ELSE \* nothing awaited: on to the guest at once
             /\ out' = IF session.guest \in reg.clients
                       THEN Write(out, conn, session.guest, start_message)
                       ELSE out
             /\ task' = [task EXCEPT ![c].pc = "recv", ![c].sid = 0]
  /\ UNCHANGED <<reg, conn, reqs, gameVars>>

\* join_session: game_ready to the guest
JoinReadyGuest(c) ==
  /\ task[c].pc = "join_ready_guest"
  /\ LET session == reg.sessions[task[c].sid]
     IN out' = IF session.guest \in reg.clients
               THEN Write(out, conn, session.guest, GameReadyMsg(task[c].sid))
               ELSE out
  /\ task' = [task EXCEPT ![c].pc = "recv", ![c].sid = 0]
  /\ UNCHANGED <<reg, conn, reqs, gameVars>>

\* the receive loop of handle_client ends on the closed connection and
\* "finally" runs unregister_client up to its first await
Unregister(c) ==
  /\ task[c].pc = "recv" /\ conn[c] = "closed"
  /\ LET n == Cardinality(Live(reg.sessions))
     IN UnregisterRun(task, c, c, FALSE, reg.clients \ {c},
                      [pos |-> 1, used |-> n, len |-> n], <<>>)
  /\ UNCHANGED <<conn, reqs, gameVars>>

\* unregister_client resumes after the send it awaited
UnregisterResume(c) ==
  /\ task[c].pc = "unreg_await"
  /\ UnregisterRun(task, c, c, FALSE, reg.clients, task[c].it, task[c].rm)
  /\ UNCHANGED <<conn, reqs, gameVars>>

\* a relay that echoes to the sender
RelayTarget_echo(session, websocket) ==
  IF websocket \in {session.host, session.guest} THEN websocket ELSE None

\* messages handle_message cannot dispatch: text that is no JSON, JSON
\* that is no object, and an object whose "type" is missing or unknown
MalformedTypes == {"invalid_json", "not_an_object", "unknown_type"}

\* what handle_message sends back for them: json.loads raises
\* JSONDecodeError, data.get raises AttributeError on a non-object, and the
\* "else" branch for other types only logs
MalformedReply(type) ==
  CASE type = "invalid_json" -> <<ErrorMsg("Invalid JSON format")>>
    [] type = "not_an_object" -> <<ErrorMsg("Internal server error")>>
    [] type = "unknown_type" -> <<>>

\* handle_message on a message it cannot dispatch
Malformed(c) ==
  /\ task[c].pc = "recv" /\ conn[c] = "open" /\ Handled < MaxRequests
  /\ reqs' = [reqs EXCEPT ![c] = @ + 1]
  /\ \E type \in MalformedTypes :
       /\ task' = [task EXCEPT ![c].data = Request(type, "")]
       /\ out' = [out EXCEPT ![c] = @ \o MalformedReply(type)]
  /\ UNCHANGED <<reg, conn, gameVars>>

\* a relay that takes every sender but the guest for the host
RelayTarget_any_sender(session, websocket) ==
  IF websocket = session.guest /\ session.host # None THEN session.host
  ELSE session.guest

\* the counterpart relay_game_message forwards to; None when the sender is
\* neither host nor guest or the other side is not set
RelayTarget(session, websocket) ==
  IF websocket = session.host /\ session.guest # None THEN session.guest
  ELSE IF websocket = session.guest /\ session.host # None THEN session.host
  ELSE None

\* relay_game_message up to its first await
RelayGameMessage(c) ==
  /\ task[c].pc = "recv" /\ conn[c] = "open" /\ Handled < MaxRequests
  /\ reqs' = [reqs EXCEPT ![c] = @ + 1]
  /\ \E session_id \in {0} \cup DOMAIN reg.sessions, game_data \in Payloads :
       LET data == GameRequest("game_message", "", session_id, game_data)
           t == [task EXCEPT ![c].data = data]
           target == IF session_id \in Live(reg.sessions)
                     THEN RelayTarget(reg.sessions[session_id], c)
                     ELSE None
       IN IF target = None \/ target \notin reg.clients
          THEN \* unknown session, unknown sender, or target gone: dropped
               /\ task' = t /\ out' = out /\ reg' = reg
          ELSE IF conn[target] = "open"
          THEN /\ out' = Write(out, conn, target, GameMessageMsg(game_data))
               /\ task' = t /\ reg' = reg
          ELSE \* ConnectionClosed: "await self.unregister_client(target)"
               LET n == Cardinality(Live(reg.sessions))
               IN UnregisterRun(t, c, target, TRUE, reg.clients \ {target},
                                [pos |-> 1, used |-> n, len |-> n], <<>>)
  /\ UNCHANGED <<conn, gameVars>>

\* the unregister_client that relay_game_message called resumes
RelayUnregisterResume(c) ==
  /\ task[c].pc = "relay_unreg_await"
  /\ UnregisterRun(task, c, task[c].ws, TRUE, reg.clients,
                   task[c].it, task[c].rm)
  /\ UNCHANGED <<conn, reqs, gameVars>>

GameIdle ==
  /\ boot = Shipped
  /\ inv = NoCall
  /\ cl = <<>>
  /\ chan = <<>>
  /\ rolls = 0
  /\ resets = 0
  /\ peer = 0

\* the server as constructed
EmptyServer ==
  /\ reg = [sessions |-> <<>>, clients |-> {}]
  /\ task = [c \in Conns |-> NewTask]
  /\ conn = [c \in Conns |-> "new"]
  /\ out = [c \in Conns |-> <<>>]

\* the server after the first connection has created a session
HostedServer ==
  LET session == NewSession("ab", 1)
  IN /\ reg = [sessions |-> <<session>>, clients |-> {1}]
     /\ task = [c \in Conns |->
                  IF c = 1 THEN [NewTask EXCEPT !.pc = "recv"] ELSE NewTask]
     /\ conn = [c \in Conns |-> IF c = 1 THEN "open" ELSE "new"]
     /\ out = [c \in Conns |->
                 IF c = 1 THEN <<SessionCreatedMsg(1, InviteCode(session))>>
                 ELSE <<>>]

InitServer ==
  /\ EmptyServer \/ HostedServer
  /\ reqs = [c \in Conns |-> 0]
  /\ GameIdle

NextServer ==
  \E c \in Conns :
    \/ Connect(c)
    \/ Close(c)
    \/ CreateSession(c)
    \/ JoinSession(c)
    \/ JoinConfirm(c)
    \/ JoinReadyHost(c)
    \/ JoinReadyGuest(c)
    \/ Unregister(c)
    \/ UnregisterResume(c)
    \/ RelayGameMessage(c)
    \/ RelayUnregisterResume(c)
    \/ Malformed(c)

SpecServer == InitServer /\ [][NextServer]_vars

\* the server during a game whose host has just dropped out: connection 1
\* has created two sessions, connection 2 has joined the first of them with
\* its invite code, and the socket of connection 1 has closed
PlayingServer ==
  LET first == Attach(NewSession("ab", 1), 2)
      second == NewSession("cd", 1)
  IN /\ reg = [sessions |-> <<first, second>>, clients |-> {1, 2}]
     /\ task = [c \in Conns |->
                  CASE c = 1 -> [NewTask EXCEPT
                                   !.pc = "recv",
                                   !.data = Request("create_session", "")]
                    [] c = 2 -> [NewTask EXCEPT
                                   !.pc = "recv",
                                   !.data = Request("join_session", "ab")]
                    [] OTHER -> NewTask]
     /\ conn = [c \in Conns |->
                  CASE c = 1 -> "closed" [] c = 2 -> "open" [] OTHER -> "new"]
     /\ out = [c \in Conns |->
                 CASE c = 1 -> <<SessionCreatedMsg(1, InviteCode(first)),
                                 SessionCreatedMsg(2, InviteCode(second)),
                                 PlayerJoinedMsg(first.guest_info),
                                 GameReadyMsg(1)>>
                   [] c = 2 -> <<SessionJoinedMsg(1, first.host_info),
                                 GameReadyMsg(1)>>
                   [] OTHER -> <<>>]

InitPlaying ==
  /\ PlayingServer
  /\ reqs = [c \in Conns |-> 0]
  /\ GameIdle

SpecPlaying == InitPlaying /\ [][NextServer]_vars

(***************************************************************************)
(* Properties of the game                                                  *)
(***************************************************************************)
\* what client c put on the wire in this step
NewMsgs(c) ==
  LET d == Other(c)
  IN IF Len(chan'[d]) > Len(chan[d])
     THEN SubSeq(chan'[d], Len(chan[d]) + 1, Len(chan'[d]))
     ELSE <<>>

SentNow(c, type) ==
  {i \in 1..Len(NewMsgs(c)) : NewMsgs(c)[i].type = type}

\* client c still animates a relayed move
RemoteMovePending(c) ==
  \E i \in 1..Len(cl[c].timers) :
    cl[c].timers[i].kind \in {"move", "special"} /\ cl[c].timers[i].opp

\* C1: once a client has applied a relayed move_complete and its animation
\* of that move has finished, its positions[player] is the position the
\* message carries; and the position a mover puts in move_complete is its
\* own positions[player].
C1_PeerAtCarried ==
  \A c \in Clients :
    (cl[c].applied # NoMsg /\ ~RemoteMovePending(c))
      => cl[c].positions[cl[c].applied.player] = cl[c].applied.position

C1_CarriedIsOwn ==
  \A c \in Clients : \A i \in SentNow(c, "move_complete") :
    NewMsgs(c)[i].position = cl'[c].positions[NewMsgs(c)[i].player]

C1_RoundTrip == []C1_PeerAtCarried /\ [][C1_CarriedIsOwn]_vars

\* the state the precondition of C2 describes: the player to move has a
\* settled dice value and no move is under way
RollSettled(g) ==
  /\ g.current_player = g.me /\ g.my_turn
  /\ g.dice_value # 0 /\ ~g.dice_rolling /\ ~g.moving /\ ~g.game_over

\* a click on the Roll Dice button in state g
ClickRoll(g) == IF g.roll_button THEN roll_dice(g) ELSE g

\* C2: when the player to move has a settled roll and has not moved, a
\* further roll is a no-op: nothing changes, no new roll starts, no
\* dice_roll is sent.
C2_SecondRollRejected ==
  \A c \in Clients : RollSettled(cl[c]) => ClickRoll(cl[c]) = cl[c]

\* try_move_token was accepted on client c in this step with a raw target
\* beyond the last square (it scheduled one more next_turn)
OvershootAccepted(c) ==
  /\ ~MoveRefused(cl[c], c)
  /\ cl[c].positions[c] + cl[c].dice_value > LastSquare
  /\ PendingTurns(cl'[c]) = PendingTurns(cl[c]) + 1

\* a scheduled next_turn ran on client c in this step
NextTurnRan(c) == PendingTurns(cl'[c]) = PendingTurns(cl[c]) - 1

\* C3: an accepted move whose target exceeds 100 leaves both positions
\* unchanged and declares no win, on the spot and when the scheduled
\* next_turn runs; and that next_turn passes the turn to the other player.
C3_Step ==
  \A c \in Clients :
    /\ OvershootAccepted(c) =>
         /\ cl'[c].positions = cl[c].positions
         /\ ~cl'[c].game_over /\ cl'[c].winner = cl[c].winner
         /\ NewMsgs(c) = <<>>
    /\ NextTurnRan(c) =>
         /\ cl'[c].positions = cl[c].positions
         /\ cl'[c].game_over = cl[c].game_over
         /\ cl'[c].current_player = Other(cl[c].current_player)
         /\ cl'[c].my_turn = (cl'[c].current_player = c)
         /\ NewMsgs(c) = <<TurnChangeMsg(cl'[c].current_player)>>

C3_OvershootPassesTurn == [][C3_Step]_vars

\* an overshooting move has been accepted and its next_turn is pending
C3_Witness ==
  \E c \in Clients :
    /\ PendingTurns(cl[c]) > 0
    /\ cl[c].positions[c] + cl[c].dice_value > LastSquare
    /\ cl[c].dice_from = "local"

\* C4: a local move that completes on square 100 ends the game with the
\* mover as winner and passes no turn; a local move that completes
\* anywhere else, an overshooting roll and the turn change that follows it
\* never set game_over; and a client's own token is never beyond square 100.
C4_Step ==
  \A c \in Clients :
    /\ \A i \in SentNow(c, "move_complete") :
         LET m == NewMsgs(c)[i]
         IN IF m.position = LastSquare
            THEN /\ cl'[c].game_over /\ cl'[c].winner = {c}
                 /\ cl'[c].current_player = cl[c].current_player
                 /\ cl'[c].my_turn = cl[c].my_turn
                 /\ SentNow(c, "turn_change") = {}
            ELSE cl'[c].game_over = cl[c].game_over
    /\ OvershootAccepted(c) \/ NextTurnRan(c) =>
         cl'[c].game_over = cl[c].game_over
    /\ cl'[c].positions[c] <= LastSquare

C4_ExactLandingWins == [][C4_Step]_vars

\* a client has won by its own move and the peer has not yet heard of it
C4_Witness ==
  \E c \in Clients :
    /\ cl[c].game_over /\ cl[c].winner = {c}
    /\ cl[c].positions[c] = LastSquare
    /\ ~cl[Other(c)].game_over

\* C5: on each client dice_value is 0 unless the player to move has a
\* completed roll that no move has consumed yet: a non-zero dice_value
\* stems from the local roll when the local player is to move and from
\* the relayed roll when the opponent is.
C5_DiceOnlyInWindow ==
  \A c \in Clients :
    cl[c].dice_value # 0 =>
      cl[c].dice_from = (IF cl[c].current_player = c THEN "local" ELSE "remote")


(***************************************************************************)
(* Properties of the server                                                *)
(***************************************************************************)
Sessions == DOMAIN reg.sessions

Count(seq, m) == Cardinality({i \in DOMAIN seq : seq[i] = m})

\* a join_session call on session sid is between two of its awaits
JoinRunning(sid) ==
  \E c \in Conns :
    /\ task[c].pc \in {"join_confirm", "join_sleep", "join_ready_guest"}
    /\ task[c].sid = sid

\* C6: a join_session that attaches a guest sends game_ready for the
\* session to host and guest alike: once the call is over, both of them
\* have the message when nobody disconnected, and when somebody did, it
\* went to both or to neither
C6_ReadyToBothOrNeither ==
  \A sid \in Sessions :
    LET session == reg.sessions[sid]
        toHost == Count(out[session.host], GameReadyMsg(sid))
        toGuest == Count(out[session.guest], GameReadyMsg(sid))
    IN session.guest # None /\ ~JoinRunning(sid) =>
         /\ (toHost > 0) <=> (toGuest > 0)
         /\ conn[session.host] = "open" /\ conn[session.guest] = "open" =>
              toHost > 0 /\ toGuest > 0

\* unregister_client of connection c has run
Unregistered(c) == task[c].pc \in {"done", "crashed", "keyerror"}

\* the live sessions whose invite code is the upper-cased code
Matching(code) ==
  {i \in Live(reg.sessions) : InviteCode(reg.sessions[i]) = Upper(code)}

\* no other session was given the invite code of session sid
OwnCode(sid) ==
  \A i \in Sessions \ {sid} :
    InviteCode(reg.sessions[i]) # InviteCode(reg.sessions[sid])

\* C7: once the host of a Ready session has been unregistered, the
\* connected guest has received exactly one player_disconnected for the
\* session, the session is out of the registry, and its invite code (when
\* the session is the only one that was given it) resolves to nothing, so
\* that a later join_session with it gets 'Session not found'
C7_HostLeavesReadySession ==
  \A sid \in Sessions :
    LET session == reg.sessions[sid]
    IN /\ session.guest # None
       /\ session.guest # session.host
       /\ Unregistered(session.host)
       /\ OwnCode(sid)
       => /\ ~session.live
          /\ Matching(session.prefix) = {}
          /\ conn[session.guest] = "open" =>
               Count(out[session.guest], PlayerDisconnectedMsg(sid)) = 1

\* connection c has a join_session request handled in this step
JoinStep(c) ==
  /\ reqs'[c] = reqs[c] + 1
  /\ task'[c].data.type = "join_session"

\* only connection c is written to in this step, and what it gets is m
OnlyReply(c, m) ==
  /\ out'[c] = Append(out[c], m)
  /\ \A d \in Conns \ {c} : out'[d] = out[d]

\* C8: a join_session whose invite code matches no live session sends
\* 'Session not found' to the requester and to nobody else, and leaves the
\* registry as it was
C8_Step ==
  \A c \in Conns :
    JoinStep(c) /\ Matching(task'[c].data.invite_code) = {} =>
      /\ OnlyReply(c, ErrorMsg("Session not found"))
      /\ reg' = reg
      /\ task'[c].pc = "recv"

C8_UnknownCodeRejected == [][C8_Step]_vars

\* a live session exists and a join with another code was turned away
C8_Witness ==
  \E c \in Conns :
    /\ Live(reg.sessions) # {}
    /\ out[c] # <<>>
    /\ out[c][Len(out[c])] = ErrorMsg("Session not found")
    /\ task[c].data.type = "join_session"
    /\ Matching(task[c].data.invite_code) = {}

\* C9: a join_session that resolves to a session with a guest sends
\* 'Session is full' to the requester; the session, the rest of the
\* registry and what host and guest have received stay as they were
C9_Step ==
  \A c \in Conns :
    LET hits == Matching(task'[c].data.invite_code)
        sid == CHOOSE i \in hits : \A j \in hits : i <= j
    IN JoinStep(c) /\ hits # {} /\ reg.sessions[sid].guest # None =>
         /\ OnlyReply(c, ErrorMsg("Session is full"))
         /\ reg' = reg
         /\ task'[c].pc = "recv"

C9_FullSessionRejected == [][C9_Step]_vars

\* a third connection was turned away from a session of two others
C9_Witness ==
  \E c \in Conns, sid \in Sessions :
    LET session == reg.sessions[sid]
    IN /\ session.live
       /\ session.guest # None
       /\ c \notin {session.host, session.guest}
       /\ out[c] # <<>>
       /\ out[c][Len(out[c])] = ErrorMsg("Session is full")
       /\ Upper(task[c].data.invite_code) = InviteCode(session)

\* every session has a host, and is 'ready' exactly when it has a guest
C10_Shape ==
  \A sid \in Sessions :
    LET session == reg.sessions[sid]
    IN /\ session.host # None
       /\ session.game_state \in {"waiting", "ready"}
       /\ session.game_state = "ready" <=> session.guest # None

\* the guest of a session stays the guest it is
C10_GuestKept ==
  \A sid \in Sessions :
    reg.sessions[sid].guest # None =>
      reg'.sessions[sid].guest = reg.sessions[sid].guest

\* C10: every session has a non-null host, its game_state is 'ready'
\* exactly when its guest is non-null, and a guest, once attached, is not
\* replaced by a later join
C10_SessionShape == []C10_Shape /\ [][C10_GuestKept]_vars

\* a session with its guest, after a later join on its code was refused
C10_Witness ==
  \E sid \in Sessions, c \in Conns :
    /\ reg.sessions[sid].game_state = "ready"
    /\ reg.sessions[sid].guest # c
    /\ ~JoinRunning(sid)
    /\ task[c].data.type = "join_session"
    /\ Upper(task[c].data.invite_code) = InviteCode(reg.sessions[sid])
    /\ OwnCode(sid)


\* C11: unregister_client run twice for one connection, or for host and
\* guest of one session at once, deletes each session once (no del of a key
\* that is gone) and sends a connection at most one player_disconnected
\* for a session
C11_UnregisterTwice ==
  \A c \in Conns :
    /\ task[c].pc # "keyerror"
    /\ \A sid \in Sessions :
         Count(out[c], PlayerDisconnectedMsg(sid)) <= 1

\* the sessions, removed ones too, that have connection c as host or guest
SessionsOf(c) ==
  {sid \in Sessions : c \in {reg.sessions[sid].host, reg.sessions[sid].guest}}

\* C12: once the connection of a host or guest has closed and its
\* unregister_client is over, no session of the registry has it as host or
\* guest, and the other side of each of its sessions, if still connected,
\* has been sent player_disconnected
C12_TeardownRemovesSessions ==
  \A c \in Conns :
    Unregistered(c) =>
      \A sid \in SessionsOf(c) :
        LET session == reg.sessions[sid]
            other == IF session.host = c THEN session.guest ELSE session.host
        IN /\ ~session.live
           /\ other \notin {None, c} /\ conn[other] = "open" =>
                Count(out[other], PlayerDisconnectedMsg(sid)) >= 1

\* connection c has a game_message request handled in this step
RelayStep(c) ==
  /\ reqs'[c] = reqs[c] + 1
  /\ task'[c].data.type = "game_message"

\* the other side of session sid as seen from connection c
Counterpart(sid, c) ==
  IF reg.sessions[sid].host = c THEN reg.sessions[sid].guest
  ELSE reg.sessions[sid].host

\* connection c sends a game_message for a Ready session it belongs to
RelayInSession(c) ==
  /\ RelayStep(c)
  /\ task'[c].data.session_id \in Live(reg.sessions) \cap SessionsOf(c)
  /\ reg.sessions[task'[c].data.session_id].guest # None

\* connection d is live: in the client set, with an open socket
IsLive(d) == d \in reg.clients /\ conn[d] = "open"

\* C13 as stated: the counterpart of the sender, when live, gets exactly
\* one game_message envelope with the payload as data and with the
\* session id, and no other connection gets anything
C13_StepWithSessionId ==
  \A c \in Conns :
    RelayInSession(c) /\ IsLive(Counterpart(task'[c].data.session_id, c)) =>
      LET d == Counterpart(task'[c].data.session_id, c)
      IN /\ Len(out'[d]) = Len(out[d]) + 1
         /\ out'[d][Len(out'[d])].type = "game_message"
         /\ out'[d][Len(out'[d])].text = task'[c].data.data
         /\ out'[d][Len(out'[d])].session_id = task'[c].data.session_id
         /\ \A e \in Conns \ {d} : out'[e] = out[e]

C13_RelayWithSessionId == [][C13_StepWithSessionId]_vars

\* C13 amended: the envelope has the payload as data and no session id
C13_Step ==
  \A c \in Conns :
    RelayInSession(c) /\ IsLive(Counterpart(task'[c].data.session_id, c)) =>
      LET d == Counterpart(task'[c].data.session_id, c)
      IN /\ Len(out'[d]) = Len(out[d]) + 1
         /\ SubSeq(out'[d], 1, Len(out[d])) = out[d]
         /\ out'[d][Len(out'[d])].type = "game_message"
         /\ out'[d][Len(out'[d])].text = task'[c].data.data
         /\ out'[d][Len(out'[d])].session_id = 0
         /\ \A e \in Conns \ {d} : out'[e] = out[e]
         /\ reg' = reg

C13_RelayToCounterpart == [][C13_Step]_vars

\* a guest's game_message has reached the host of its session
C13_Witness ==
  \E c \in Conns, sid \in Sessions :
    LET session == reg.sessions[sid]
    IN /\ session.guest = c /\ session.host # c
       /\ task[c].data.type = "game_message"
       /\ task[c].data.session_id = sid
       /\ out[session.host] # <<>>
       /\ out[session.host][Len(out[session.host])] =
            GameMessageMsg(task[c].data.data)

\* the coroutine of connection c ran a piece of relay_game_message in this
\* step: its start, or a resumption of the unregister_client it called
RelayRan(c) ==
  \/ RelayStep(c)
  \/ task[c].pc = "relay_unreg_await" /\ task'[c] # task[c]

\* the counterpart of this relay attempt of connection c is not live
PeerGone(c) ==
  \/ /\ RelayInSession(c)
     /\ ~IsLive(Counterpart(task'[c].data.session_id, c))
  \/ task[c].pc = "relay_unreg_await"

\* what connection c is sent in this step
NewOut(c) == SubSeq(out'[c], Len(out[c]) + 1, Len(out'[c]))

\* C14 as stated: when the counterpart is not live the relay attempt lets
\* no exception out and gets the sender no message from the server
C14_StepSilent ==
  \A c \in Conns :
    RelayRan(c) /\ PeerGone(c) =>
      /\ task'[c].pc \in {"recv", "relay_unreg_await"}
      /\ out'[c] = out[c]

C14_DropSilently == [][C14_StepSilent]_vars

\* C14 amended: the message is dropped, no exception gets out of
\* relay_game_message, and the sender is sent no error; when the send
\* raised ConnectionClosed the counterpart is unregistered, and all the
\* sender may be sent is the player_disconnected of that teardown
C14_Step ==
  \A c \in Conns :
    RelayRan(c) /\ PeerGone(c) =>
      /\ task'[c].pc \in {"recv", "relay_unreg_await"}
      /\ \A d \in Conns : \A i \in DOMAIN NewOut(d) :
           NewOut(d)[i].type = "player_disconnected"
      /\ (RelayStep(c) /\
          Counterpart(task'[c].data.session_id, c) \notin reg.clients) =>
            out' = out /\ reg' = reg

C14_DropWithoutError == [][C14_Step]_vars

\* a relay found its counterpart closed and is tearing it down
C14_Witness ==
  \E c \in Conns :
    /\ task[c].pc = "relay_unreg_await"
    /\ task[c].data.type = "game_message"
    /\ conn[task[c].ws] = "closed"

\* C16: after a connection has issued create_session more than once, the
\* registry holds one session hosted by it, the one it created last
C16_LastCreateWins ==
  \A c \in Conns :
    LET created == {sid \in Sessions : reg.sessions[sid].host = c}
    IN \A sid \in created \cap Live(reg.sessions) :
         \A later \in created : later <= sid

\* C17: no two live sessions have the same invite code
C17_InviteCodesUnique ==
  \A i, j \in Live(reg.sessions) :
    i # j => InviteCode(reg.sessions[i]) # InviteCode(reg.sessions[j])

\* the invite codes create_session may hand out: upper case throughout
UpperCodes == {Upper(prefix) : prefix \in SidPrefixes}

\* C18: the invite_code of session_created is the upper-cased start of the
\* session id, and while the session is live a join_session with that code
\* in any letter case resolves to it
C18_CodeResolves ==
  \A sid \in Sessions :
    LET session == reg.sessions[sid]
    IN /\ InviteCode(session) \in UpperCodes
       /\ \E i \in DOMAIN out[session.host] :
            out[session.host][i] = SessionCreatedMsg(sid, Upper(session.prefix))
       /\ session.live =>
            \A code \in JoinCodes \cup UpperCodes \cup SidPrefixes :
              Upper(code) = InviteCode(session) =>
                FindSession(reg.sessions, Upper(code)) = sid


\* the request is one of the malformed messages of C15 (a game_message
\* without session_id reads session_id None, which names no session)
IsMalformed(data) ==
  \/ data.type \in MalformedTypes
  \/ data.type = "join_session" /\ data.invite_code = NoCode
  \/ data.type = "game_message" /\ data.session_id = 0

\* C15: every malformed message gets its sender one error message and
\* leaves the registry unchanged
C15_Step ==
  \A c \in Conns :
    reqs'[c] = reqs[c] + 1 /\ IsMalformed(task'[c].data) =>
      /\ Len(out'[c]) = Len(out[c]) + 1
      /\ out'[c][Len(out'[c])].type = "error"
      /\ reg' = reg

C15_MalformedGetsError == [][C15_Step]_vars


C26_Step ==
  \A c \in Conns :
    RelayStep(c) =>
      \A i \in DOMAIN NewOut(c) : NewOut(c)[i].type # "game_message"

\* C26: the relay of a game_message never writes a game_message to the
\* connection that sent it, also when that connection has joined a session
\* it hosts itself.
C26_NoEchoToSender == [][C26_Step]_vars

\* the peer connection c's game_message of this step is relayed to
RelayPeer(c) ==
  LET sid == task'[c].data.session_id
  IN IF sid \in Live(reg.sessions)
     THEN RelayTarget(reg.sessions[sid], c)
     ELSE None

\* the relay of this step, serving c, sends to a peer whose socket is closed
SendToClosedPeer(c) ==
  /\ RelayStep(c)
  /\ RelayPeer(c) # None
  /\ RelayPeer(c) \in reg.clients
  /\ conn[RelayPeer(c)] = "closed"

\* connection c has a message handled in this step that cannot be
\* dispatched
MalformedStep(c) ==
  /\ reqs'[c] = reqs[c] + 1
  /\ task'[c].data.type \in MalformedTypes

\* the coroutine of c runs a piece of unregister_client in this step: the
\* teardown of c itself, or the one its relay called for the closed peer
TeardownStep(c) ==
  /\ task'[c] # task[c]
  /\ \/ task[c].pc = "recv" /\ conn[c] = "closed"
     \/ task[c].pc \in {"unreg_await", "relay_unreg_await"}

\* a failure is met while connection c is served
FailureStep(c) ==
  MalformedStep(c) \/ SendToClosedPeer(c) \/ TeardownStep(c)

\* the closed peer whose teardown the coroutine of c runs, if any
ClosedPeer(c) ==
  IF task[c].pc = "relay_unreg_await" THEN {task[c].ws}
  ELSE IF SendToClosedPeer(c) THEN {RelayPeer(c)}
  ELSE {}

\* session sid keeps its entry, its two sides stay in the client set as
\* they were, and a game_message of either side goes where it went
Untouched(sid) ==
  /\ reg'.sessions[sid] = reg.sessions[sid]
  /\ \A d \in {reg.sessions[sid].host, reg.sessions[sid].guest} \ {None} :
       /\ (d \in reg'.clients) = (d \in reg.clients)
       /\ task'[d] = task[d]
       /\ conn'[d] = conn[d]
       /\ RelayTarget(reg'.sessions[sid], d)
            = RelayTarget(reg.sessions[sid], d)

\* C30 as stated: every session without the served connection is untouched
C30_StepServedOnly ==
  \A c \in Conns :
    FailureStep(c) =>
      \A sid \in Sessions \ SessionsOf(c) : Untouched(sid)

C30_ServedOnly == [][C30_StepServedOnly]_vars

C30_Step ==
  \A c \in Conns :
    FailureStep(c) =>
      \A sid \in Sessions \ SessionsOf(c) :
        (\A d \in ClosedPeer(c) : sid \notin SessionsOf(d)) => Untouched(sid)

\* C30: a step in which a failure is met while a connection is served (a
\* message that cannot be dispatched, a relay to a closed peer, a piece of
\* unregister_client, also one that raises) leaves every session that
\* includes neither that connection nor the closed peer as it was in the
\* registry, with both sides still served and relayed to as before.
C30_OtherSessionsUntouched == [][C30_Step]_vars

\* the teardown of a connection has raised, and a Ready session without
\* that connection is in the registry with both sides connected
C30_Witness ==
  \E c \in Conns :
    /\ task[c].pc = "crashed"
    /\ \E sid \in Live(reg.sessions) \ SessionsOf(c) :
         LET session == reg.sessions[sid]
         IN /\ session.guest # None
            /\ {session.host, session.guest} \subseteq reg.clients
            /\ conn[session.host] = "open" /\ conn[session.guest] = "open"

\* connection c was sent a message of type t before its i-th message
SentBefore(c, i, t) == {j \in 1..(i - 1) : out[c][j].type = t}

\* the host of a session is sent player_joined, with the guest's info,
\* before game_ready, and the guest session_joined before game_ready
C37_InfoBeforeReady ==
  \A c \in Conns :
    \A i \in DOMAIN out[c] :
      out[c][i].type = "game_ready" =>
        LET sid == out[c][i].session_id
            session == reg.sessions[sid]
        IN /\ c = session.host =>
                \E j \in SentBefore(c, i, "player_joined") :
                  out[c][j].info = session.guest_info
           /\ c = session.guest =>
                \E j \in SentBefore(c, i, "session_joined") :
                  out[c][j].session_id = sid

\* no connection is sent game_ready for a session after player_disconnected
\* for that session
C37_NoReadyAfterDisconnected ==
  \A c \in Conns :
    \A i \in DOMAIN out[c] :
      out[c][i].type = "game_ready" =>
        \A j \in SentBefore(c, i, "player_disconnected") :
          out[c][j].session_id # out[c][i].session_id

\* C37: in a session set-up the host is sent player_joined before
\* game_ready and the guest session_joined before game_ready, and nobody
\* is sent game_ready for a session after player_disconnected for it.
C37_SetupOrder == C37_InfoBeforeReady /\ C37_NoReadyAfterDisconnected

\* connection c is the host or the guest of the live session sid, and the
\* session has both sides set
InSession(c, sid) ==
  /\ sid \in Live(reg.sessions)
  /\ c \in {reg.sessions[sid].host, reg.sessions[sid].guest}
  /\ reg.sessions[sid].host # None
  /\ reg.sessions[sid].guest # None

C38_Step ==
  \A c \in Conns :
    RelayStep(c) =>
      LET sid == task'[c].data.session_id
      IN /\ (\E d \in Conns : \E i \in DOMAIN NewOut(d) :
                NewOut(d)[i].type = "game_message") => InSession(c, sid)
         /\ ~InSession(c, sid) => out' = out /\ reg' = reg

\* C38: the relay delivers a game_message only when the sender is host or
\* guest of the live session it names and that session has both sides
\* set; a message from outside the session, for an unknown session id or
\* from the host of a waiting session is dropped: nothing is sent to
\* anyone and the registry stays as it is.
C38_OnlySessionMembersRelay == [][C38_Step]_vars

\* a connection outside a Ready session has sent a game_message naming
\* it, and no game_message has been delivered to anyone
C38_Witness ==
  \E c \in Conns :
    LET sid == task[c].data.session_id
    IN /\ task[c].data.type = "game_message"
       /\ sid \in Live(reg.sessions)
       /\ reg.sessions[sid].guest # None
       /\ c \notin {reg.sessions[sid].host, reg.sessions[sid].guest}
       /\ \A d \in Conns : \A i \in DOMAIN out[d] :
            out[d][i].type # "game_message"

(***************************************************************************)
(* The client and the actions it receives (SpecPeer)                       *)
(***************************************************************************)
\* a polling tick of client c drains its queue in this step
DrainStep(c) ==
  cl[c].message_queue # <<>> /\ cl'[c].message_queue = <<>>

\* a dice_roll or move_complete that names the receiving client's own index
OwnEcho(g, data) ==
  data.type \in {"dice_roll", "move_complete"} /\ data.player = g.me

PlayState(g) ==
  <<g.positions, g.dice_value, g.current_player, g.moving, g.dice_rolling,
    g.move_count>>

C19_Step ==
  \A c \in Clients :
    /\ Local(c)
    /\ DrainStep(c)
    /\ \A i \in DOMAIN cl[c].message_queue :
         OwnEcho(cl[c], cl[c].message_queue[i])
    => /\ PlayState(cl'[c]) = PlayState(cl[c])
       /\ cl'[c].timers = cl[c].timers
       /\ chan' = chan

\* C19: a client that processes a dice_roll or move_complete whose player
\* field is its own index ignores it: positions, dice_value,
\* current_player, moving, dice_rolling and move_count stay as they were
\* (and no callback is scheduled and nothing is sent).
C19_OwnEchoIgnored == [][C19_Step]_vars

\* the last action the client processed named its own index, and it came
\* in while the client's own dice animation was running
C19_Witness ==
  \E c \in Clients :
    /\ Local(c)
    /\ OwnEcho(cl[c], cl[c].last)
    /\ cl[c].message_queue = <<>>
    /\ cl[c].dice_rolling
    /\ rolls > 0

\* the Reset Game button of client c is clicked in this step
ResetStep(c) == Local(c) /\ resets' = resets + 1

C20_Step ==
  \A c \in Clients :
    ResetStep(c) =>
      IF cl[c].moving \/ cl[c].dice_rolling
      THEN cl'[c] = cl[c] /\ chan' = chan
      ELSE /\ cl'[c].positions = [i \in Players |-> 0]
           /\ cl'[c].current_player = 0
           /\ cl'[c].dice_value = 0
           /\ ~cl'[c].game_over

\* C20: reset_game is refused (the game is left as it is, nothing is sent)
\* while a token animation or a dice roll is in progress; otherwise it
\* returns the game to positions [0, 0], current_player 0, dice_value 0,
\* game_over false.
C20_ResetRefusedInAnimation == [][C20_Step]_vars


\* C21: in every state the client can be in, roll_dice() or
\* try_move_token() called while my_turn is false, and try_move_token()
\* called while dice_value is 0, return the game as it was: no field
\* changes and nothing is sent.
C21_IllegalTurnActionNoOp ==
  \A c \in Clients :
    Local(c) =>
      /\ ~cl[c].my_turn =>
           /\ roll_dice(cl[c]) = cl[c]
           /\ \A p \in Players : try_move_token(cl[c], p) = cl[c]
      /\ cl[c].dice_value = 0 =>
           \A p \in Players : try_move_token(cl[c], p) = cl[c]

\* the peer's roll has settled on this client: only the turn test stands
\* between a click on a token and a move
C21_Witness ==
  \E c \in Clients :
    /\ Local(c)
    /\ ~cl[c].my_turn
    /\ cl[c].dice_value # 0
    /\ ~MoveRefused_any_turn(cl[c], cl[c].current_player)


\* a click on the token is accepted in this step: a move starts or an
\* overshoot schedules next_turn
MoveAccepted(c) ==
  \/ cl'[c].move_count[c] = cl[c].move_count[c] + 1
  \/ PendingTurns(cl'[c]) > PendingTurns(cl[c])

C22_NotifiedOnce == \A c \in Clients : Local(c) => cl'[c].notices <= 1

C22_NoTurnAction ==
  \A c \in Clients :
    Local(c) /\ cl[c].disconnected =>
      /\ rolls' = rolls
      /\ ~MoveAccepted(c)

C22_RollStaysDisabled ==
  \A c \in Clients :
    Local(c) /\ cl[c].disconnected => ~cl'[c].roll_button

\* C22: after player_disconnected has been received during a game the user
\* is notified once, no local roll or move is accepted any more, and the
\* Roll Dice button is never enabled again.
C22_DisconnectEndsPlay ==
  [][C22_NotifiedOnce /\ C22_NoTurnAction /\ C22_RollStaysDisabled]_vars


\* C28: while a dice roll or a token move is in flight on a client
\* (dice_rolling or moving, whoever started it), roll_dice() and
\* try_move_token() return the game as it was: no second roll or move
\* starts.
C28_InFlightRejects ==
  \A c \in Clients :
    Local(c) /\ (cl[c].moving \/ cl[c].dice_rolling) =>
      /\ roll_dice(cl[c]) = cl[c]
      /\ \A p \in Players : try_move_token(cl[c], p) = cl[c]

\* the peer's dice animation runs on a client whose turn it is: the flag
\* alone keeps roll_dice from starting a second roll
C28_Witness ==
  \E c \in Clients :
    /\ Local(c)
    /\ cl[c].dice_rolling
    /\ cl[c].my_turn /\ ~cl[c].moving /\ ~cl[c].game_over
    /\ \E i \in DOMAIN cl[c].timers :
         cl[c].timers[i].kind = "dice" /\ cl[c].timers[i].end # 0

\* the network thread hands client c an action in this step
EnqueueStep(c) ==
  peer' = peer + 1 /\ cl'[c].disconnected = cl[c].disconnected

C29_Step ==
  \A c \in Clients :
    Local(c) =>
      LET g == cl[c]
          g2 == cl'[c]
      IN /\ IF EnqueueStep(c)
            THEN /\ \/ g2 = g
                    \/ \E data \in PeerMsgs :
                         g2 = [g EXCEPT !.message_queue = Append(@, data)]
                 /\ g.instance => g2 # g
            ELSE IF g2.processed # g.processed
            THEN /\ g.polling
                 /\ g2.processed = g.processed \o g.message_queue
                 /\ g2.message_queue = <<>>
            ELSE g2.message_queue = g.message_queue
         /\ g2.message_queue # <<>> => g2.polling

\* C29: an action handed over by the network thread is only appended to
\* the client's queue (and is appended whenever GameClient still holds the
\* game, which it does as long as the game has not ended);
\* the queue is emptied only by a polling tick, which processes exactly the
\* queued actions, in arrival order, after those processed before; and a
\* non-empty queue always has a tick pending.
C29_QueueExactlyOnceInOrder == [][C29_Step]_vars

\* one action has been processed, and a different one that arrived after
\* that tick waits in the queue of a running game
C29_Witness ==
  \E c \in Clients :
    /\ Local(c)
    /\ ~cl[c].game_over
    /\ Len(cl[c].processed) = 1
    /\ Len(cl[c].message_queue) = 1
    /\ cl[c].processed[1] # cl[c].message_queue[1]

\* the actions client c processes in this step, in order
NowProcessed(c) ==
  SubSeq(cl'[c].processed, Len(cl[c].processed) + 1, Len(cl'[c].processed))

NowProcessedTypes(c) == {NowProcessed(c)[i].type : i \in DOMAIN NowProcessed(c)}

\* the messages client c puts on the wire in this step
NowSent(c) ==
  SubSeq(chan'[Other(c)], Len(chan[Other(c)]) + 1, Len(chan'[Other(c)]))

\* a callback that belongs to the animation of a relayed roll or move
RemoteTimer(t) == t.opp \/ (t.kind = "dice" /\ t.end # 0)

\* a pending callback of client c runs in this step
TimerStep(c) ==
  /\ cl'[c].timers # cl[c].timers
  /\ Len(cl'[c].timers) <= Len(cl[c].timers)
  /\ NowProcessed(c) = <<>>
  /\ resets' = resets

TurnKept(c) ==
  /\ cl'[c].current_player = cl[c].current_player
  /\ cl'[c].my_turn = cl[c].my_turn

C31_Step ==
  \A c \in Clients :
    Local(c) =>
      /\ cl'[c].current_player # cl[c].current_player =>
           \/ resets' # resets
           \/ NowProcessedTypes(c) \cap {"turn_change", "reset"} # {}
           \/ \E i \in DOMAIN NowSent(c) :
                NowSent(c)[i] = TurnChangeMsg(cl'[c].current_player)
      /\ /\ NowProcessed(c) # <<>>
         /\ NowProcessedTypes(c) \subseteq {"dice_roll", "move_complete", "game_end"}
         => TurnKept(c)
      /\ /\ TimerStep(c)
         /\ \A i \in DOMAIN cl[c].timers : RemoteTimer(cl[c].timers[i])
         => TurnKept(c)

\* C31: current_player of a client changes only in a step that runs a
\* local next_turn (which announces the new player with turn_change), that
\* processes a received turn_change or reset, or that resets the game; a
\* tick that processes only dice_roll, move_complete and game_end actions,
\* and a callback of the animation of a relayed roll or move, leave
\* current_player and my_turn as they were.
C31_TurnChangesExplicit == [][C31_Step]_vars

\* the peer's relayed move has been applied and its animation is over,
\* and it is still the peer's turn
C31_Witness ==
  \E c \in Clients :
    /\ Local(c)
    /\ cl[c].applied.type = "move_complete"
    /\ cl[c].applied.player # c
    /\ ~cl[c].moving /\ cl[c].timers = <<>>
    /\ cl[c].positions[cl[c].applied.player] = cl[c].applied.position
    /\ cl[c].current_player = cl[c].applied.player
    /\ ~cl[c].my_turn

\* the reset messages client c puts on the wire in this step
NowSentResets(c) ==
  Cardinality({i \in DOMAIN NowSent(c) : NowSent(c)[i] = ResetMsg})

C34_Step ==
  \A c \in Clients :
    Local(c) =>
      /\ resets' = resets + 1 => NowSentResets(c) = 1
      /\ "reset" \in NowProcessedTypes(c) => NowSentResets(c) = 0

\* C34: a local reset_game sends exactly one reset message, and a client
\* that applies a received reset sends no reset, so that a reset is never
\* answered with a reset.
C34_ResetNotEchoed == [][C34_Step]_vars

(***************************************************************************)
(* The end of a turn (SpecTurn)                                            *)
(***************************************************************************)
\* C32: at no moment do both clients of a session have my_turn set.
C32_OneTurnHolder == ~(cl[0].my_turn /\ cl[1].my_turn)

\* C33: after a roll a client passes the turn at most once: next_turn runs
\* at most once between an accepted roll and the next, however often the
\* token is clicked during the delay that follows an overshooting roll.
C33_OneTurnChangePerRoll == \A c \in Clients : cl[c].turns_passed <= 1

\* C35: between two resets a client runs handle_game_end at most once (one
\* on_game_end callback, one game_end message), also the losing client
\* that gets both the winning move_complete and the game_end.
C35_GameEndsOnce == \A c \in Clients : cl[c].ended <= 1

\* every action the peer has sent to client c so far: the ones c has
\* processed, then the ones in its queue, then the ones still on the way
Stream(c) == cl[c].processed \o cl[c].message_queue \o chan[c]

\* what the handlers client c can run in this state leave behind: the
\* dice button, a token click, a timer callback, a poll of the queue
Handlers(c) ==
  {roll_dice(cl[c]), try_move_token(cl[c], cl[c].me),
   process_network_messages(cl[c])}
  \cup UNION {{RunTimer([cl[c] EXCEPT !.timers = RemoveAt(@, i)],
                         cl[c].timers[i], rolled) :
                  rolled \in DiceValues \cup {0}} :
               i \in DOMAIN cl[c].timers}

C39_Step ==
  \A c \in Clients :
    ~cl[c].game_over =>
      \/ Stream(c)' = Stream(c)
      \/ \E g \in Handlers(Other(c)) :
           /\ g.sent # <<>>
           /\ cl'[Other(c)] = [g EXCEPT !.sent = <<>>]
           /\ Stream(c)' = Stream(c) \o g.sent

\* within one turn the peer's actions come as dice_roll, move_complete,
\* turn_change, whichever of them the turn has: a dice_roll opens the
\* stream or follows a turn_change, and a move_complete follows a
\* dice_roll or opens the turn
TurnOrder(s) ==
  \A i \in DOMAIN s :
    i > 1 =>
      /\ s[i].type = "dice_roll" => s[i - 1].type = "turn_change"
      /\ s[i].type = "move_complete" =>
            s[i - 1].type \in {"dice_roll", "turn_change"}

C39_PerTurn ==
  []((\A c \in Clients : ~cl[c].game_over) =>
       \A c \in Clients : TurnOrder(Stream(c)))

C36_PollingAfterPlayAgain ==
  \A c \in Clients :
    Local(c) /\ cl[c].again /\ ~cl[c].game_over => cl[c].polling

(***************************************************************************)
(* The two clients at rest (SpecGame)                                      *)
(***************************************************************************)
\* nothing is on the wire, in a queue or pending, and no animation runs
Quiescent ==
  \A c \in Clients :
    /\ chan[c] = <<>>
    /\ cl[c].message_queue = <<>>
    /\ cl[c].timers = <<>>
    /\ ~cl[c].moving
    /\ ~cl[c].dice_rolling

\* C23: whenever all relayed messages are delivered and processed and all
\* animations are finished, the two clients hold the same positions and the
\* same current_player.
C23_ClientsAgreeAtRest ==
  Quiescent =>
    /\ cl[0].positions = cl[1].positions
    /\ cl[0].current_player = cl[1].current_player


(***************************************************************************)
(* The board (SpecMove)                                                    *)
(***************************************************************************)
\* the resting square the rules give for a raw landing square
Resting(raw) ==
  CASE raw \in LadderBottoms -> LADDERS(raw)
    [] raw \in SnakeHeads -> SNAKES(raw)
    [] OTHER -> raw

\* the local move of client c has been made and its animation is over
MoveDone(c) == Local(c) /\ cl[c].move_roll # 0 /\ ~cl[c].moving

\* C24: after a local move from square p with dice value d, p + d <= 100,
\* the mover rests on LADDERS[p + d] if p + d is a ladder bottom, on
\* SNAKES[p + d] if it is a snake head, and on p + d otherwise; the
\* resting square is itself neither a snake head nor a ladder bottom.
C24_RestingSquare ==
  \A c \in Clients :
    MoveDone(c) =>
      /\ cl[c].move_from + cl[c].move_roll <= LastSquare
      /\ cl[c].positions[c] = Resting(cl[c].move_from + cl[c].move_roll)
      /\ cl[c].positions[c] \notin SnakeHeads \cup LadderBottoms

\* a move that landed on a snake head has come to rest
C24_Witness ==
  \E c \in Clients :
    /\ MoveDone(c)
    /\ cl[c].move_from + cl[c].move_roll \in SnakeHeads


(***************************************************************************)
(* The board configuration (SpecBoard)                                     *)
(***************************************************************************)
BoardValid(snakes, ladders) ==
  /\ \A e \in snakes : e[1] > e[2]
  /\ \A e \in ladders : e[1] < e[2]
  /\ \A e \in snakes \cup ladders : e[1] \in 1..LastSquare /\ e[2] \in 1..LastSquare
  /\ Endpoints(snakes) \cap Endpoints(ladders) = {}

C27_GeneratedCodeIsValid ==
  inv.call = "generate" =>
    /\ inv.exc = "none"
    /\ Len(inv.val) = 8
    /\ validate_invite_code(inv.val)

====
